---- MODULE Spec2Model ----
(***************************************************************************)
(* dustbuster: dust classification (get_dust_utxos), address grouping      *)
(* (get_utxos_by_address), PSBT skeleton construction (create_dust_psbt)   *)
(* and the DustBuster::create_psbt handler that chains them.               *)
(*                                                                         *)
(* A behaviour is one run on one answer of list_unspent: every action is   *)
(* one whole call of one function on that list, with its arguments drawn   *)
(* from small sets, and records the call and what it returned.  An         *)
(* unfiltered get_dust_utxos call may be followed by a second one, so that *)
(* two classifications of the same list can be compared.                   *)
(***************************************************************************)
EXTENDS Integers, Sequences, FiniteSets, TLC

(***************************************************************************)
(* Bounds of the model.                                                    *)
(***************************************************************************)
\* Longest list of unspent outputs.
MaxLen == 4
\* Largest utxo_count passed to create_dust_psbt.
MaxCount == 3

(***************************************************************************)
(* u64 arithmetic.  A u64 is kept at its full width as four 16-bit limbs,  *)
(* least significant first, so that the products of line 38 overflow       *)
(* exactly where they do in the program.                                   *)
(***************************************************************************)
Limb == 2^16

\* The u64 of a small natural number (below 2^31).
U64(n) == <<n % Limb, (n \div Limb) % Limb, 0, 0>>

\* x * k in u64 for a small k: the wrapped product and the bits carried out.
U64Mul(x, k) ==
    LET p1 == x[1] * k
        p2 == x[2] * k + (p1 \div Limb)
        p3 == x[3] * k + (p2 \div Limb)
        p4 == x[4] * k + (p3 \div Limb)
    IN  [val |-> <<p1 % Limb, p2 % Limb, p3 % Limb, p4 % Limb>>,
         carry |-> p4 \div Limb]

\* x / d in u64 (integer division) for a small d.
U64Div(x, d) ==
    LET r4 == x[4] % d
        t3 == r4 * Limb + x[3]
        r3 == t3 % d
        t2 == r3 * Limb + x[2]
        r2 == t2 % d
        t1 == r2 * Limb + x[1]
    IN  <<t1 \div d, t2 \div d, t3 \div d, x[4] \div d>>

\* x < y in u64.
U64Less(x, y) ==
    \/ x[4] < y[4]
    \/ x[4] = y[4] /\ x[3] < y[3]
    \/ x[4] = y[4] /\ x[3] = y[3] /\ x[2] < y[2]
    \/ x[4] = y[4] /\ x[3] = y[3] /\ x[2] = y[2] /\ x[1] < y[1]

\* x <= y in u64 (used by the properties).
U64Leq(x, y) == x = y \/ U64Less(x, y)

(***************************************************************************)
(* Scripts and addresses of the unspent outputs.                           *)
(***************************************************************************)
\* The script shapes of the model are "p2wpkh", a native witness
\* public-key-hash, "p2pkh", a legacy public-key-hash, and "p2pk", a bare
\* pay-to-public-key script, for which the node derives no address.

\* Script::is_op_return: no wallet output is an OP_RETURN.
is_op_return(script) == FALSE

\* Script::is_witness_program.
is_witness_program(script) == script = "p2wpkh"

\* Bytes of the script: 22 (OP_0 <20>), 25 (P2PKH), 35 (<33> OP_CHECKSIG).
script_len(script) ==
    CASE script = "p2wpkh" -> 22
      [] script = "p2pkh"  -> 25
      [] script = "p2pk"   -> 35

\* Script::consensus_encode: a one-byte length prefix, then the bytes.
consensus_encode_len(script) == 1 + script_len(script)

\* ListUnspentResultEntry.address: the address the node derived, <<>> for None.
NoAddress == <<>>
address_of(script) ==
    CASE script = "p2wpkh" -> <<[kind |-> "p2wpkh", hash |-> "k1"]>>
      [] script = "p2pkh"  -> <<[kind |-> "p2pkh", hash |-> "k2"]>>
      [] script = "p2pk"   -> NoAddress

\* Address::assume_checked().to_string(): the canonical text of an address.
address_to_string(a) ==
    CASE a.kind = "p2wpkh" -> "bc1q_k1"
      [] a.kind = "p2pkh"  -> "1_k2"

(***************************************************************************)
(* The dust threshold of line 38.                                          *)
(***************************************************************************)
\* FeeRate::from_sat_per_vb_unchecked(sat_vb) = FeeRate(sat_vb * (1000 / 4)):
\* an unchecked u64 product, which panics on overflow in a build with
\* overflow checks and wraps in a build without.
from_sat_per_vb_unchecked(checks, sat_vb) ==
    LET m == U64Mul(sat_vb, 1000 \div 4)
    IN  [panic |-> checks /\ m.carry # 0, val |-> m.val]

\* dust_size with the output's own size forgotten: the input's size alone.
dust_size_input_only(script) ==
    IF is_op_return(script) THEN 0
    ELSE IF is_witness_program(script)
         THEN 32 + 4 + 1 + (107 \div 4) + 4
         ELSE 32 + 4 + 1 + 107 + 4

\* The future input's size plus the output's own: the spend cost copied from
\* Bitcoin Core, the 8 bytes of the value and the serialized script.
dust_size(script) ==
    IF is_op_return(script) THEN 0
    ELSE IF is_witness_program(script)
         THEN 32 + 4 + 1 + (107 \div 4) + 4 + 8 + consensus_encode_len(script)
         ELSE 32 + 4 + 1 + 107 + 4 + 8 + consensus_encode_len(script)

\* Script::minimal_non_dust_custom(fee_rate):
\*   (fee_rate.to_sat_per_kwu() * 4).checked_mul(size).expect(..) / 1000
\* The first product is unchecked, the second panics on overflow in any build.
minimal_non_dust_custom(checks, script, fee_rate) ==
    LET perkvb == U64Mul(fee_rate, 4)
        sats   == U64Mul(perkvb.val, dust_size(script))
    IN  [panic |-> (checks /\ perkvb.carry # 0) \/ sats.carry # 0,
         val   |-> U64Div(sats.val, 1000)]

\* The min_amount of line 38 for one script at min_relay_fee.
min_amount(checks, script, min_relay_fee) ==
    LET rate == from_sat_per_vb_unchecked(checks, min_relay_fee)
        dust == minimal_non_dust_custom(checks, script, rate.val)
    IN  [panic |-> rate.panic \/ dust.panic, val |-> dust.val]

(***************************************************************************)
(* The unspent outputs (ListUnspentResultEntry).                           *)
(***************************************************************************)
\* The amount and script of the outputs a wallet of the model may hold: a
\* witness output just below and exactly at its threshold at 1 sat/vB (98), a
\* legacy output well below and exactly at its own (182), and an output with
\* no address.
Kinds ==
    { [amount |-> 97,  script |-> "p2wpkh"],
      [amount |-> 98,  script |-> "p2wpkh"],
      [amount |-> 98,  script |-> "p2pkh"],
      [amount |-> 182, script |-> "p2pkh"],
      [amount |-> 97,  script |-> "p2pk"] }

\* The i-th entry of a list_unspent answer: outpoints are distinct (two
\* outputs per transaction), the address is the one of the script.
Entry(i, k) ==
    [txid |-> (i + 1) \div 2, vout |-> (i + 1) % 2, amount |-> k.amount,
     script_pub_key |-> k.script, address |-> address_of(k.script)]

\* Every answer of list_unspent the model considers.
Wallets ==
    UNION { { [i \in 1..n |-> Entry(i, ks[i])] : ks \in [1..n -> Kinds] }
            : n \in 0..MaxLen }

\* Option<String>: None is <<>>, Some(s) is <<s>>.
None == <<>>
Some(s) == <<s>>

\* The address filters a caller may give: the two addresses an output can
\* have, one no output has, and the empty string.
AddressStrings == {"bc1q_k1", "1_k2", "addrX", ""}

\* The fee rates a caller may give (sat/vB, u64): 1, 3, the largest rate at
\* which 1000 * rate * 98 still fits in a u64 (188232082384791), the
\* smallest rate at which rate * 250 does not (73786976294838207), and
\* u64::MAX.
FeeRates ==
    { U64(1), U64(3),
      <<59287, 12903, 43826, 0>>,
      <<40895, 12058, 9437, 262>>,
      <<65535, 65535, 65535, 65535>> }

(***************************************************************************)
(* get_utxos_by_address                                                    *)
(***************************************************************************)
\* entry_push inserting at the front of the group.
entry_push_front(addresses, key, utxo) ==
    [k \in DOMAIN addresses \cup {key} |->
        IF k = key
        THEN IF key \in DOMAIN addresses THEN <<utxo>> \o addresses[key]
                                         ELSE <<utxo>>
        ELSE addresses[k]]

\* addresses.entry(key).or_default().push(utxo)
entry_push(addresses, key, utxo) ==
    [k \in DOMAIN addresses \cup {key} |->
        IF k = key
        THEN IF key \in DOMAIN addresses THEN Append(addresses[key], utxo)
                                         ELSE <<utxo>>
        ELSE addresses[k]]

\* The loop body of get_utxos_by_address for one utxo.
group_step(addresses, utxo) ==
    IF utxo.address # NoAddress
    THEN entry_push(addresses, address_to_string(utxo.address[1]), utxo)
    ELSE addresses

RECURSIVE group_loop(_, _, _)
group_loop(utxos, i, addresses) ==
    IF i > Len(utxos) THEN addresses
    ELSE group_loop(utxos, i + 1, group_step(addresses, utxos[i]))

\* The HashMap from address text to the utxos of that address.
get_utxos_by_address(utxos) == group_loop(utxos, 1, <<>>)

(***************************************************************************)
(* get_dust_utxos                                                          *)
(***************************************************************************)
\* is_dust with >= for >.
is_dust_or_equal(min, amount) == U64Leq(U64(amount), min)

\* min_amount > utxo.amount
is_dust(min, amount) == U64Less(U64(amount), min)

\* filter(..).cloned().collect(): the utxos below their threshold, in order;
\* a panic of the threshold computation ends the call.
RECURSIVE dust_filter(_, _, _)
dust_filter(checks, utxos, min_relay_fee) ==
    IF utxos = <<>> THEN [panic |-> FALSE, val |-> <<>>]
    ELSE LET utxo == Head(utxos)
             min  == min_amount(checks, utxo.script_pub_key, min_relay_fee)
             rest == dust_filter(checks, Tail(utxos), min_relay_fee)
         IN  IF min.panic \/ rest.panic THEN [panic |-> TRUE, val |-> <<>>]
             ELSE [panic |-> FALSE,
                   val   |-> IF is_dust(min.val, utxo.amount)
                             THEN <<utxo>> \o rest.val ELSE rest.val]

\* filtered_utxos that looks the address up and then keeps the whole list.
filtered_utxos_not_narrowed(utxos, address) ==
    IF address = None THEN [panic |-> FALSE, val |-> utxos]
    ELSE [panic |-> address[1] \notin DOMAIN get_utxos_by_address(utxos),
          val |-> utxos]

\* utxos_by_address.get(filter_address).unwrap(), or utxos without a filter.
filtered_utxos(utxos, address) ==
    IF address = None THEN [panic |-> FALSE, val |-> utxos]
    ELSE LET utxos_by_address == get_utxos_by_address(utxos)
         IN  IF address[1] \in DOMAIN utxos_by_address
             THEN [panic |-> FALSE, val |-> utxos_by_address[address[1]]]
             ELSE [panic |-> TRUE, val |-> <<>>]

\* The whole call: Ok(dust_utxos), or a panic; the function has no Err.
get_dust_utxos(checks, utxos, min_relay_fee, address) ==
    LET filtered == filtered_utxos(utxos, address)
        dust     == dust_filter(checks, filtered.val, min_relay_fee)
    IN  IF filtered.panic \/ dust.panic
        THEN [outcome |-> "panic", val |-> <<>>]
        ELSE [outcome |-> "ok", val |-> dust.val]

(***************************************************************************)
(* create_dust_psbt                                                        *)
(***************************************************************************)
\* The OP_RETURN opcode pushed at line 56 (0x6a).
OP_RETURN == 106

\* Sequence(0xFFFFFFFD) as two 16-bit limbs, least significant first
\* (0xFFFD, 0xFFFF).
ENABLE_RBF_NO_LOCKTIME == <<65533, 65535>>

\* create_op_return_output_script: the one opcode, no payload.
create_op_return_output_script == <<OP_RETURN>>

\* tx_in with the final sequence 0xFFFFFFFF.
tx_in_final_sequence(utxo) ==
    [previous_output |-> [txid |-> utxo.txid, vout |-> utxo.vout],
     script_sig |-> <<>>,
     sequence |-> <<65535, 65535>>,
     witness |-> <<>>]

\* The TxIn built for one utxo: ScriptBuf::new() and Witness::new() are empty.
tx_in(utxo) ==
    [previous_output |-> [txid |-> utxo.txid, vout |-> utxo.vout],
     script_sig |-> <<>>,
     sequence |-> ENABLE_RBF_NO_LOCKTIME,
     witness |-> <<>>]

\* take that ignores the count.
take_all(utxos, utxo_count) == utxos

\* utxos.iter().take(utxo_count as usize); on a 64-bit target the cast keeps
\* the count.
take(utxos, utxo_count) ==
    SubSeq(utxos, 1, IF utxo_count < Len(utxos) THEN utxo_count ELSE Len(utxos))

\* The unsigned transaction of lines 79-100.
unsigned_tx(utxos, utxo_count) ==
    LET taken == take(utxos, utxo_count)
    IN  [version |-> 2,
         lock_time |-> 0,
         input |-> [i \in 1..Len(taken) |-> tx_in(taken[i])],
         output |-> <<[value |-> 0,
                       script_pubkey |-> create_op_return_output_script]>>]

\* Psbt::from_unsigned_tx: one empty PSBT input and output map per
\* transaction input and output; its check (unsigned_tx_checks) rejects a
\* transaction only for an input with a script_sig or a witness.
from_unsigned_tx(tx) ==
    IF \E i \in 1..Len(tx.input) : tx.input[i].script_sig # <<>>
    THEN [outcome |-> "err", val |-> "UnsignedTxHasScriptSigs"]
    ELSE IF \E i \in 1..Len(tx.input) : tx.input[i].witness # <<>>
    THEN [outcome |-> "err", val |-> "UnsignedTxHasScriptWitnesses"]
    ELSE [outcome |-> "ok",
          val |-> [unsigned_tx |-> tx,
                   version |-> 0,
                   inputs |-> [i \in 1..Len(tx.input) |-> <<>>],
                   outputs |-> [i \in 1..Len(tx.output) |-> <<>>]]]

\* The whole call.
create_dust_psbt(utxos, utxo_count) ==
    from_unsigned_tx(unsigned_tx(utxos, utxo_count))

(***************************************************************************)
(* DustBuster::create_psbt                                                 *)
(***************************************************************************)
\* The handler: list_unspent().unwrap(), get_dust_utxos with Some(address),
\* the panic on an empty dust list, create_dust_psbt, the print.  dust is the
\* local dust_utxos where it was computed and psbt the PSBT where it was built
\* (each <<>> otherwise).
create_psbt(checks, rpc_ok, utxos, min_relay_fee, address, utxo_count) ==
    IF ~rpc_ok THEN [outcome |-> "panic", dust |-> <<>>, psbt |-> <<>>]
    ELSE LET dust == get_dust_utxos(checks, utxos, min_relay_fee, Some(address))
         IN  IF dust.outcome # "ok"
             THEN [outcome |-> dust.outcome, dust |-> <<>>, psbt |-> <<>>]
             ELSE IF dust.val = <<>>
             THEN [outcome |-> "panic", dust |-> <<dust.val>>, psbt |-> <<>>]
             ELSE LET psbt == create_dust_psbt(dust.val, utxo_count)
                  IN  IF psbt.outcome # "ok"
                      THEN [outcome |-> "err", dust |-> <<dust.val>>,
                            psbt |-> <<>>]
                      ELSE [outcome |-> "ok", dust |-> <<dust.val>>,
                            psbt |-> <<psbt.val>>]

(***************************************************************************)
(* The state machine.                                                      *)
(***************************************************************************)
VARIABLES
    utxos,            \* what list_unspent answers: the list the calls are given
    overflow_checks,  \* whether the build panics on arithmetic overflow
    op,               \* the last function called
    args,             \* its arguments
    outcome,          \* "ok", "err" (a returned Err) or "panic"
    dust_utxos,       \* the list get_dust_utxos computed, in <<..>>
    by_address,       \* the map get_utxos_by_address returned, in <<..>>
    psbt,             \* the PSBT create_dust_psbt returned, in <<..>>
    prev              \* the unfiltered get_dust_utxos call before this one,
                      \* in <<..>>

vars == <<utxos, overflow_checks, op, args, outcome, dust_utxos, by_address,
          psbt, prev>>

Init ==
    /\ utxos \in Wallets
    /\ overflow_checks \in BOOLEAN
    /\ op = "none"
    /\ args = <<>>
    /\ outcome = "none"
    /\ dust_utxos = <<>>
    /\ by_address = <<>>
    /\ psbt = <<>>
    /\ prev = <<>>

\* get_utxos_by_address(&utxos)
GetUtxosByAddress ==
    /\ op = "none"
    /\ op' = "get_utxos_by_address"
    /\ args' = <<>>
    /\ outcome' = "ok"
    /\ by_address' = <<get_utxos_by_address(utxos)>>
    /\ dust_utxos' = <<>>
    /\ psbt' = <<>>
    /\ prev' = <<>>
    /\ UNCHANGED <<utxos, overflow_checks>>

\* get_dust_utxos(&utxos, min_relay_fee, &address) as the first call.
GetDustUtxos ==
    \E min_relay_fee \in FeeRates :
    \E address \in {None} \cup {Some(s) : s \in AddressStrings} :
        LET r == get_dust_utxos(overflow_checks, utxos, min_relay_fee, address)
        IN  /\ op = "none"
            /\ op' = "get_dust_utxos"
            /\ args' = [min_relay_fee |-> min_relay_fee, address |-> address]
            /\ outcome' = r.outcome
            /\ dust_utxos' = IF r.outcome = "ok" THEN <<r.val>> ELSE <<>>
            /\ prev' = <<>>
            /\ by_address' = <<>>
            /\ psbt' = <<>>
            /\ UNCHANGED <<utxos, overflow_checks>>

\* get_dust_utxos(&utxos, min_relay_fee, &None) after an unfiltered call that
\* returned; prev keeps that call and what it returned.
GetDustUtxosAgain ==
    \E min_relay_fee \in FeeRates :
        LET r == get_dust_utxos(overflow_checks, utxos, min_relay_fee, None)
        IN  /\ op = "get_dust_utxos" /\ args.address = None
            /\ outcome = "ok" /\ prev = <<>>
            /\ prev' = <<[min_relay_fee |-> args.min_relay_fee,
                          dust_utxos |-> dust_utxos[1]]>>
            /\ args' = [min_relay_fee |-> min_relay_fee, address |-> None]
            /\ outcome' = r.outcome
            /\ dust_utxos' = IF r.outcome = "ok" THEN <<r.val>> ELSE <<>>
            /\ UNCHANGED <<utxos, overflow_checks, op, by_address, psbt>>

\* create_dust_psbt(&utxos, utxo_count)
CreateDustPsbt ==
    \E utxo_count \in 0..MaxCount :
        LET r == create_dust_psbt(utxos, utxo_count)
        IN  /\ op = "none"
            /\ op' = "create_dust_psbt"
            /\ args' = [utxo_count |-> utxo_count]
            /\ outcome' = r.outcome
            /\ psbt' = IF r.outcome = "ok" THEN <<r.val>> ELSE <<>>
            /\ dust_utxos' = <<>>
            /\ by_address' = <<>>
            /\ prev' = <<>>
            /\ UNCHANGED <<utxos, overflow_checks>>

\* DustBuster::create_psbt(min_relay_fee, address, utxo_count)
CreatePsbt ==
    \E rpc_ok \in BOOLEAN :
    \E min_relay_fee \in FeeRates :
    \E address \in AddressStrings :
    \E utxo_count \in 0..MaxCount :
        LET r == create_psbt(overflow_checks, rpc_ok, utxos, min_relay_fee,
                             address, utxo_count)
        IN  /\ op = "none"
            /\ op' = "create_psbt"
            /\ args' = [rpc_ok |-> rpc_ok, min_relay_fee |-> min_relay_fee,
                        address |-> address, utxo_count |-> utxo_count]
            /\ outcome' = r.outcome
            /\ dust_utxos' = r.dust
            /\ psbt' = r.psbt
            /\ by_address' = <<>>
            /\ prev' = <<>>
            /\ UNCHANGED <<utxos, overflow_checks>>

Next ==
    \/ GetUtxosByAddress
    \/ GetDustUtxos
    \/ GetDustUtxosAgain
    \/ CreateDustPsbt
    \/ CreatePsbt

Spec == Init /\ [][Next]_vars

(***************************************************************************)
(* Vocabulary of the properties.                                           *)
(***************************************************************************)
\* The text of the address that owns a utxo, None when it has none.
Owner(utxo) ==
    IF utxo.address = NoAddress THEN None
    ELSE Some(address_to_string(utxo.address[1]))

\* The indices of the list whose utxo the address owns.
OwnedBy(list, a) == {i \in 1..Len(list) : Owner(list[i]) = Some(a)}

\* The entries of the list at the indices S, in the order of the list.
Pick(list, S) ==
    [j \in 1..Cardinality(S) |->
        list[CHOOSE i \in S : Cardinality({k \in S : k < i}) = j - 1]]

\* The threshold computation aborts for this utxo at this fee rate.
Aborts(utxo, fee) == min_amount(overflow_checks, utxo.script_pub_key, fee).panic

\* The amount is strictly below the threshold of the script at the fee rate.
BelowThreshold(utxo, fee) ==
    U64Less(U64(utxo.amount),
            min_amount(overflow_checks, utxo.script_pub_key, fee).val)

\* The indices of the list whose utxo is below its threshold.
DustIn(list, fee) == {i \in 1..Len(list) : BelowThreshold(list[i], fee)}

\* The last call was get_dust_utxos without / with an address filter.
Unfiltered == op = "get_dust_utxos" /\ args.address = None
Filtered == op = "get_dust_utxos" /\ args.address # None

\* A PSBT was returned by create_dust_psbt, from this list with this count.
Built == op \in {"create_dust_psbt", "create_psbt"} /\ psbt # <<>>
BuiltFrom == IF op = "create_psbt" THEN dust_utxos[1] ELSE utxos
BuiltTx == psbt[1].unsigned_tx
Min(a, b) == IF a < b THEN a ELSE b

(***************************************************************************)
(* C1: an unfiltered get_dust_utxos that returns, returns exactly the      *)
(* records whose amount is strictly below the threshold of their script at *)
(* the fee rate, in the order of the input and each once; a record at or   *)
(* above its threshold is not returned.                                    *)
(***************************************************************************)
C1_DustIsExactlyTheBelowThreshold ==
    Unfiltered /\ outcome = "ok" =>
        /\ dust_utxos[1] = Pick(utxos, DustIn(utxos, args.min_relay_fee))
        /\ \A i \in 1..Len(utxos) :
              ~BelowThreshold(utxos[i], args.min_relay_fee) =>
                  \A j \in 1..Len(dust_utxos[1]) : dust_utxos[1][j] # utxos[i]

\* A list of three of which the middle one sits exactly at its threshold and
\* is left out, while the two around it are returned.
C1_Witness ==
    /\ Unfiltered /\ outcome = "ok" /\ Len(utxos) = 3
    /\ U64(utxos[2].amount)
         = min_amount(overflow_checks, utxos[2].script_pub_key,
                      args.min_relay_fee).val
    /\ dust_utxos[1] = <<utxos[1], utxos[3]>>

(***************************************************************************)
(* C2: get_dust_utxos with an address filter that owns no output of the    *)
(* list returns an error value (not an empty list, not an abort).          *)
(***************************************************************************)
C2_UnknownAddressIsReturnedError ==
    Filtered /\ OwnedBy(utxos, args.address[1]) = {} => outcome = "err"

(***************************************************************************)
(* C3: a PSBT returned by create_dust_psbt has min(n, length) inputs and   *)
(* exactly one output, of value 0 and with the script <<0x6a>>.            *)
(***************************************************************************)
C3_InputCountAndSingleOpReturn ==
    Built =>
        /\ Len(BuiltTx.input) = Min(args.utxo_count, Len(BuiltFrom))
        /\ Len(BuiltTx.output) = 1
        /\ BuiltTx.output[1].value = 0
        /\ BuiltTx.output[1].script_pubkey = <<106>>

\* A list longer than the count: the count decides; and the output is there.
C3_Witness ==
    /\ op = "create_dust_psbt" /\ psbt # <<>>
    /\ Len(utxos) = 3 /\ args.utxo_count = 2
    /\ Len(BuiltTx.input) = 2 /\ Len(BuiltTx.output) = 1

(***************************************************************************)
(* C4: create_dust_psbt never returns a PSBT with zero inputs: with an     *)
(* empty list, or a count of 0, it returns a construction error.           *)
(***************************************************************************)
C4_ZeroInputsIsConstructionError ==
    op = "create_dust_psbt" /\ (utxos = <<>> \/ args.utxo_count = 0) =>
        outcome = "err" /\ psbt = <<>>

(***************************************************************************)
(* C5: in a returned PSBT the i-th input spends the (txid, vout) of the    *)
(* i-th record of the list, has an empty script_sig, an empty witness and  *)
(* sequence 0xFFFFFFFD; the transaction has version 2 and locktime 0.      *)
(***************************************************************************)
C5_InputsAreTheFirstRecordsInOrder ==
    Built =>
        /\ BuiltTx.version = 2
        /\ BuiltTx.lock_time = 0
        /\ \A i \in 1..Min(args.utxo_count, Len(BuiltFrom)) :
              /\ i \in DOMAIN BuiltTx.input
              /\ BuiltTx.input[i].previous_output
                   = [txid |-> BuiltFrom[i].txid, vout |-> BuiltFrom[i].vout]
              /\ BuiltTx.input[i].script_sig = <<>>
              /\ BuiltTx.input[i].witness = <<>>
              /\ BuiltTx.input[i].sequence = <<65533, 65535>>

\* The handler built a PSBT of two inputs from a dust list of three.
C5_Witness ==
    /\ op = "create_psbt" /\ outcome = "ok" /\ psbt # <<>>
    /\ Len(dust_utxos[1]) = 3 /\ args.utxo_count = 2
    /\ BuiltTx.input[2].previous_output.txid = dust_utxos[1][2].txid
    /\ BuiltTx.input[2].previous_output.vout = dust_utxos[1][2].vout

(***************************************************************************)
(* C6: with an address filter that owns an output of the list, the lookup  *)
(* of the group does not fail, and the list returned is the dust filter    *)
(* applied to the group get_utxos_by_address makes for that address: the   *)
(* records the address owns that are below their threshold, in order, and  *)
(* no record of another address or of none.                                *)
(***************************************************************************)
C6_FilteredDustComesFromTheGroup ==
    Filtered /\ OwnedBy(utxos, args.address[1]) # {} =>
        LET a     == args.address[1]
            fee   == args.min_relay_fee
            group == get_utxos_by_address(utxos)[a]
        IN  /\ outcome = "panic" =>
                 \E i \in OwnedBy(utxos, a) : Aborts(utxos[i], fee)
            /\ outcome = "ok" =>
                 /\ dust_utxos[1] = Pick(group, DustIn(group, fee))
                 /\ dust_utxos[1]
                      = Pick(utxos, OwnedBy(utxos, a) \cap DustIn(utxos, fee))
                 /\ \A j \in 1..Len(dust_utxos[1]) :
                       Owner(dust_utxos[1][j]) = Some(a)

\* A dust output of another address and a dust output with no address are
\* left out, the filter's own dust output is returned.
C6_Witness ==
    /\ Filtered /\ outcome = "ok" /\ Len(utxos) = 3
    /\ DustIn(utxos, args.min_relay_fee) = {1, 2, 3}
    /\ Owner(utxos[1]) = None
    /\ Owner(utxos[2]) = args.address
    /\ Owner(utxos[3]) \notin {None, args.address}
    /\ dust_utxos[1] = <<utxos[2]>>

(***************************************************************************)
(* C7: get_utxos_by_address never fails; in its map every record with an   *)
(* address appears exactly once, under its own address; a record with no   *)
(* address appears nowhere; no group is empty; each group keeps the order  *)
(* of the list.                                                            *)
(***************************************************************************)
C7_GroupsPartitionTheAddressedRecords ==
    op = "get_utxos_by_address" =>
        /\ outcome = "ok"
        /\ LET m     == by_address[1]
               Where == {<<k, j>> \in (DOMAIN m) \X (1..Len(utxos)) :
                            j \in DOMAIN m[k]}
           IN  /\ \A i \in 1..Len(utxos) :
                     LET at == {w \in Where : m[w[1]][w[2]] = utxos[i]}
                     IN  IF Owner(utxos[i]) = None THEN at = {}
                         ELSE /\ Cardinality(at) = 1
                              /\ \A w \in at : Some(w[1]) = Owner(utxos[i])
               /\ \A k \in DOMAIN m : m[k] # <<>>
               /\ \A k \in DOMAIN m : m[k] = Pick(utxos, OwnedBy(utxos, k))

\* Two addresses interleaved with a record that has none: a group of two in
\* the order of the list, a group of one.
C7_Witness ==
    /\ op = "get_utxos_by_address" /\ Len(utxos) = 4
    /\ Owner(utxos[2]) = None
    /\ DOMAIN by_address[1] = {"bc1q_k1", "1_k2"}
    /\ by_address[1]["bc1q_k1"] = <<utxos[1], utxos[4]>>
    /\ by_address[1]["1_k2"] = <<utxos[3]>>

(***************************************************************************)
(* C8: over the whole u64 range of the fee rate the threshold computation  *)
(* neither aborts nor wraps: an unfiltered classification always returns,  *)
(* and at a fee rate no lower than that of an earlier classification of    *)
(* the same list every output that was dust then is dust now.              *)
(***************************************************************************)
C8_DustIsMonotoneInFeeRate ==
    Unfiltered =>
        /\ outcome = "ok"
        /\ prev # <<>> /\ U64Leq(prev[1].min_relay_fee, args.min_relay_fee) =>
              \A j \in 1..Len(prev[1].dust_utxos) :
                 \E k \in 1..Len(dust_utxos[1]) :
                    dust_utxos[1][k] = prev[1].dust_utxos[j]

\* C8, for the builds that wrap: of two classifications that both returned,
\* the one at the higher fee rate keeps every dust output.
C8_ReturnedDustIsMonotoneInFeeRate ==
    /\ Unfiltered /\ outcome = "ok" /\ prev # <<>>
    /\ U64Leq(prev[1].min_relay_fee, args.min_relay_fee)
    => \A j \in 1..Len(prev[1].dust_utxos) :
          \E k \in 1..Len(dust_utxos[1]) :
             dust_utxos[1][k] = prev[1].dust_utxos[j]

\* The future input sizes the specification gives for the two script types.
InputVsizeOfSpec(script) ==
    CASE script = "p2wpkh" -> 68
      [] script = "p2pkh"  -> 148

(***************************************************************************)
(* C9 as stated: the threshold is the fee rate times the future input size *)
(* of the script alone (148 legacy public-key-hash, 68 native witness      *)
(* public-key-hash); at 1 sat/vB a native witness public-key-hash output   *)
(* is dust iff its amount is below 68.                                     *)
(***************************************************************************)
C9_ThresholdIsFeeTimesInputVsize ==
    Unfiltered /\ outcome = "ok" /\ args.min_relay_fee = U64(1) =>
        \A i \in 1..Len(utxos) :
            utxos[i].script_pub_key \in {"p2wpkh", "p2pkh"} =>
                ( (\E j \in 1..Len(dust_utxos[1]) : dust_utxos[1][j] = utxos[i])
                  <=> utxos[i].amount
                        < InputVsizeOfSpec(utxos[i].script_pub_key) )

\* The size the library multiplies the fee rate by, per script type.
SpendAndOutputSize(script) ==
    CASE script = "p2wpkh" -> 67 + 8 + 23
      [] script = "p2pkh"  -> 148 + 8 + 26
      [] script = "p2pk"   -> 148 + 8 + 36

\* 1000 * fee * size fits in a u64.
FitsU64(fee, size) ==
    /\ U64Mul(fee, size).carry = 0
    /\ U64Mul(U64Mul(fee, size).val, 1000).carry = 0

(***************************************************************************)
(* C9 amended: the threshold is the fee rate times the sum of the future   *)
(* input size (148 for a non-witness script, 67 for a witness program) and *)
(* the serialized size of the output itself (8 bytes of value and the      *)
(* length-prefixed script): 98 for native witness public-key-hash, 182 for *)
(* legacy public-key-hash, at every fee rate at which 1000 times the fee   *)
(* rate times that size fits in a u64.                                     *)
(***************************************************************************)
C9_ThresholdIsFeeTimesSpendAndOutputSize ==
    Unfiltered =>
        LET fee == args.min_relay_fee
        IN  /\ (\A i \in 1..Len(utxos) :
                   FitsU64(fee, SpendAndOutputSize(utxos[i].script_pub_key)))
               => outcome = "ok"
            /\ outcome = "ok" =>
                 \A i \in 1..Len(utxos) :
                    FitsU64(fee, SpendAndOutputSize(utxos[i].script_pub_key)) =>
                       ( (\E j \in 1..Len(dust_utxos[1]) :
                             dust_utxos[1][j] = utxos[i])
                         <=> U64Less(U64(utxos[i].amount),
                                U64Mul(fee, SpendAndOutputSize(
                                              utxos[i].script_pub_key)).val) )

\* At 1 sat/vB a witness output of 97 is dust, one of 98 is not, and a
\* legacy output of 98 is.
C9_Witness ==
    /\ Unfiltered /\ outcome = "ok" /\ args.min_relay_fee = U64(1)
    /\ Len(utxos) = 3
    /\ utxos[1].script_pub_key = "p2wpkh" /\ utxos[1].amount = 98
    /\ utxos[2].script_pub_key = "p2wpkh" /\ utxos[2].amount = 97
    /\ utxos[3].script_pub_key = "p2pkh" /\ utxos[3].amount = 98
    /\ dust_utxos[1] = <<utxos[2], utxos[3]>>

(***************************************************************************)
(* C10: create_psbt with an empty address string considers all the dust    *)
(* outputs of the wallet, returns an Err when there is none, reaches       *)
(* create_dust_psbt only with a non-empty dust list and never aborts.      *)
(* (The fee rates at which the classification itself aborts are C8's.)     *)
(***************************************************************************)
C10_EmptyAddressMeansAllDust ==
    /\ op = "create_psbt" /\ args.rpc_ok /\ args.address = ""
    /\ \A i \in 1..Len(utxos) : ~Aborts(utxos[i], args.min_relay_fee)
    => LET all == Pick(utxos, DustIn(utxos, args.min_relay_fee))
       IN  /\ outcome # "panic"
           /\ all = <<>> => outcome = "err" /\ psbt = <<>>
           /\ all # <<>> => dust_utxos = <<all>>
           /\ psbt # <<>> => dust_utxos # <<>> /\ dust_utxos[1] # <<>>

====
